---- MODULE Spec2Model ----
(***************************************************************************)
(* A model of the grant review service: the review ledger                  *)
(* (chat/custom_knowledge_base.py), the review orchestrator                *)
(* (chat/router.py, GrantReviewAgent) and the HTTP ingress (main.py).      *)
(*                                                                         *)
(* External collaborators (the embedder, the PostgreSQL store, the         *)
(* reviewer agent, the GitHub and Perplexity tools, Telegram) are          *)
(* modelled at their interface: each call either succeeds or raises, the   *)
(* outcome being chosen nondeterministically.                              *)
(***************************************************************************)
EXTENDS Integers, Sequences, FiniteSets, TLC

\* Largest value of the store's clock (created_at is assigned by the store).
MaxTime == 2

\* Number of earlier reviews in the ledger when the flows start.
MaxPrior == 2
MaxContentLen == 4
MaxApply == 2
MaxListLen == 2
MaxAgents == 2

\* The absent value (Python None, SQL NULL) of a text field.
None == "None"

UserIds == {"u1", "u2"}

\* Review texts the reviewer may produce.  "collA" and "collB" stand for two
\* distinct texts with the same MD5 digest (MD5 is not injective on text).
ReviewTexts == {"LGTM", "collA", "collB"}

\* application_content arguments of add_review: the dict a direct caller
\* passes (with or without the id / created_at keys), or the raw message
\* string that next_action passes.
AppDicts ==
    { [kind |-> "dict", hasId |-> TRUE,  id |-> "app1", hasCreated |-> TRUE,  created_at |-> "2024-01-01"],
      [kind |-> "dict", hasId |-> FALSE, id |-> None,   hasCreated |-> FALSE, created_at |-> None] }

AppStr == [kind |-> "str", hasId |-> FALSE, id |-> None, hasCreated |-> FALSE, created_at |-> None]

\* Tokens of an application's content: the two labels the enrichment step
\* reads, a line break, a space, and values.
NameLabel == "Company/Project Name:"
GH == "Project GitHub Repository:"
PS == "Problem Solution Fit:"
NL == "NL"
SP == " "
RepoUrl == "https://github.com/acme/app"
Word == "acme"

Contents ==
    { <<>>,
      <<GH, SP, RepoUrl, NL, PS, SP, Word, NL, NL, Word>>,
      <<GH, SP, Word, NL>>,
      <<Word, NL, PS, Word>> }

\* Messages handed to next_action.  marker: the text contains "New Grant
\* Application Received"; json: what lies between the first '{' and the last
\* '}' ("none": no braces, "invalid": not JSON, "object": a JSON object, whose
\* id, created_at and content follow); length: len(msg).
ShortLength == 30
LongLength == 250

Msg(marker, json, id, created_at, content) ==
    [ marker |-> marker, json |-> json, id |-> id, created_at |-> created_at,
      content |-> content, length |-> IF json = "object" THEN LongLength ELSE ShortLength ]

\* The same message with more text around its parts.
Long(m) == [m EXCEPT !.length = LongLength]

Msgs ==
    { Msg(FALSE, "none", "", "", <<>>),
      Msg(TRUE, "none", "", "", <<>>),
      Msg(TRUE, "invalid", "", "", <<>>),
      Long(Msg(TRUE, "invalid", "", "", <<>>)) }
    \cup { Msg(TRUE, "object", "app1", "2024-01-01", c) : c \in Contents }

\* Texts the reviewer may return: a review, or the empty string.
ReviewerOutputs == {"LGTM", "collA", ""}

VARIABLES
    table,      \* rows of the grant_reviews table
    now,        \* the store's clock
    last,       \* the result of the last direct ledger call
    pc,         \* position of the next_action flow
    msg,        \* next_action's msg
    user,       \* next_action's user_id
    reply_function,     \* whether a reply callback was supplied
    context,            \* the context _create_context returned
    structured_data,    \* whether _create_context returned structured data
    response_content,   \* the reviewer's output
    error,              \* the exception next_action caught, then the one it raised
    trace,              \* the external calls of the flow, in order
    ing_pc,             \* position of process_application
    request,            \* the request process_application serves
    http_result,        \* what process_application returned
    funder_chat,        \* the messages sent to the funder's chat for the request
    extract_input,      \* the content handed to _extract_application_sections
    extracted,          \* what its successive applications to that content returned
    agents              \* the reviewer agents _initialize_agent has built, in order

ledgerVars == <<table, now, last>>
flowVars == <<pc, msg, user, reply_function, context, structured_data, response_content, error, trace>>
ingressVars == <<ing_pc, request, http_result, funder_chat>>
extractVars == <<extract_input, extracted>>
sessionVars == <<agents>>

----------------------------------------------------------------------------
(* The review ledger: CustomKnowledgeBase                                  *)

\* hashlib.md5(review_content.encode()).hexdigest()
md5(t) ==
    CASE t = "LGTM" -> "d_LGTM"
      [] t \in {"collA", "collB"} -> "d_coll"
      [] OTHER -> "d_" \o t

\* dict.get on the application content; a str has no attribute 'get'.
_format_application_data(app) ==
    [ ok         |-> app.kind = "dict",
      id         |-> IF app.hasId THEN app.id ELSE None,
      created_at |-> IF app.hasCreated THEN app.created_at ELSE "now()" ]

\* The grant_reviews table is keyed by its id column, which add_review sets
\* to the content hash: an INSERT of an id already present violates the key.
PrimaryKeyConflict(tbl, id) == \E r \in tbl : r.id = id

NewRow(user_id, formatted_app, review_content, at) ==
    [ id               |-> md5(review_content),
      name             |-> user_id,
      content          |-> review_content,
      user_id          |-> user_id,
      application_id   |-> formatted_app.id,
      application_date |-> formatted_app.created_at,
      review_type      |-> "grant_review",
      content_hash     |-> md5(review_content),
      created_at       |-> at ]

\* An add_review whose INSERT replaces a row that has the same id.
add_review_upsert(tbl, at, user_id, app, review_content, embedOk, dbOk) ==
    LET formatted_app == _format_application_data(app) IN
    IF ~embedOk THEN
        [status |-> "raised", error |-> "EmbedderError", hash |-> None, table |-> tbl]
    ELSE IF ~formatted_app.ok THEN
        [status |-> "raised", error |-> "AttributeError", hash |-> None, table |-> tbl]
    ELSE IF ~dbOk THEN
        [status |-> "raised", error |-> "OperationalError", hash |-> None, table |-> tbl]
    ELSE
        [status |-> "ok", error |-> None, hash |-> md5(review_content),
         table |-> { r \in tbl : r.id # md5(review_content) }
                     \cup {NewRow(user_id, formatted_app, review_content, at)}]

\* An add_review that logs a storage fault and returns normally.
add_review_swallow(tbl, at, user_id, app, review_content, embedOk, dbOk) ==
    [status |-> "ok", error |-> None, hash |-> md5(review_content), table |-> tbl]

\* add_review: embedding, hash, formatting, connect, INSERT, commit; every
\* exception is logged and re-raised.
add_review(tbl, at, user_id, app, review_content, embedOk, dbOk) ==
    LET formatted_app == _format_application_data(app) IN
    IF ~embedOk THEN
        [status |-> "raised", error |-> "EmbedderError", hash |-> None, table |-> tbl]
    ELSE IF ~formatted_app.ok THEN
        [status |-> "raised", error |-> "AttributeError", hash |-> None, table |-> tbl]
    ELSE IF ~dbOk THEN
        [status |-> "raised", error |-> "OperationalError", hash |-> None, table |-> tbl]
    ELSE IF PrimaryKeyConflict(tbl, md5(review_content)) THEN
        [status |-> "raised", error |-> "UniqueViolation", hash |-> None, table |-> tbl]
    ELSE
        [status |-> "ok", error |-> None, hash |-> md5(review_content),
         table |-> tbl \cup {NewRow(user_id, formatted_app, review_content, at)}]

\* All orderings of a finite set of rows.
Orderings(S) ==
    { s \in [1..Cardinality(S) -> S] : \A i, j \in 1..Cardinality(S) : i # j => s[i] # s[j] }

\* ORDER BY created_at ASC
OrderByCreatedAtAsc(S) ==
    { s \in Orderings(S) : \A i \in 1..(Len(s) - 1) : s[i].created_at <= s[i + 1].created_at }

\* ORDER BY created_at DESC: rows with equal created_at come in any order.
OrderByCreatedAtDesc(S) ==
    { s \in Orderings(S) : \A i \in 1..(Len(s) - 1) : s[i].created_at >= s[i + 1].created_at }

\* One row as get_reviews formats it.
FormatReview(r) ==
    [ id         |-> r.id,
      name       |-> r.name,
      content    |-> r.content,
      user_id    |-> r.user_id,
      created_at |-> r.created_at ]

\* A SELECT without the WHERE clause on meta_data->>'user_id'.
get_reviews_unfiltered(tbl, user_id) ==
    { [i \in 1..Len(s) |-> FormatReview(s[i])] : s \in OrderByCreatedAtDesc(tbl) }

\* get_reviews: the possible results of the SELECT, formatted.
get_reviews(tbl, user_id) ==
    { [i \in 1..Len(s) |-> FormatReview(s[i])] :
        s \in OrderByCreatedAtDesc({ r \in tbl : r.user_id = user_id }) }

\* reviews[-1] in place of reviews[0].
get_latest_review_oldest(tbl, user_id) ==
    { IF rows = <<>> THEN <<>> ELSE <<rows[Len(rows)]>> : rows \in get_reviews(tbl, user_id) }

\* get_latest_review: reviews[0] of its own get_reviews call, or None.  The
\* result is a sequence: <<>> for None, <<review>> for a review.
get_latest_review(tbl, user_id) ==
    { IF rows = <<>> THEN <<>> ELSE <<rows[1]>> : rows \in get_reviews(tbl, user_id) }

\* with psycopg2.connect(...) as conn: leaving the block commits or rolls back
\* the transaction and does not close the connection; nothing else closes it,
\* so it stays open until the connection object is garbage-collected, which
\* may or may not have happened when the operation has ended.
ConnectionAfterWith == {"open", "closed"}

\* The connection of a ledger operation that ended with the error err:
\* "none" when the operation never connected (it failed before the with
\* statement, or connect itself failed).
Connection(err) ==
    CASE err \in {"EmbedderError", "AttributeError"} -> {"none"}
      [] err = "OperationalError" -> {"none"} \cup ConnectionAfterWith
      [] OTHER -> ConnectionAfterWith

\* The user whose row holds the text, or None.
OwnerOf(tbl, text) ==
    IF \E r \in tbl : r.content = text
    THEN (CHOOSE r \in tbl : r.content = text).user_id
    ELSE None

\* No call has been made.  last.conn is the state of the connection the call
\* opened, last.owner the user whose row held the text before the call.
NoCall ==
    [ op |-> "none", user_id |-> None, text |-> None, status |-> "none", error |-> None,
      hash |-> None, dup |-> FALSE, rows |-> <<>>, conn |-> "none", owner |-> None ]

\* A direct call of add_review by a client of the ledger.
AddReview(user_id, app, review_content, embedOk, dbOk) ==
    \E at \in now..MaxTime :
        LET res == add_review(table, at, user_id, app, review_content, embedOk, dbOk) IN
        /\ table' = res.table
        /\ now' = IF res.table # table THEN at ELSE now
        /\ \E conn \in Connection(res.error) :
             last' = [ op |-> "add_review", user_id |-> user_id, text |-> review_content,
                       status |-> res.status, error |-> res.error, hash |-> res.hash,
                       dup |-> (\E r \in table : r.content = review_content /\ r.user_id = user_id),
                       rows |-> <<>>, conn |-> conn,
                       owner |-> OwnerOf(table, review_content) ]
    /\ UNCHANGED <<flowVars, ingressVars>>
    /\ UNCHANGED extractVars
    /\ UNCHANGED sessionVars

\* A direct call of get_reviews by a client of the ledger.
GetReviews(user_id, dbOk) ==
    /\ IF dbOk
       THEN \E rows \in get_reviews(table, user_id), conn \in Connection(None) :
                last' = [ op |-> "get_reviews", user_id |-> user_id, text |-> None,
                          status |-> "ok", error |-> None, hash |-> None, dup |-> FALSE,
                          rows |-> rows, conn |-> conn, owner |-> None ]
       ELSE \E conn \in Connection("OperationalError") :
                last' = [ op |-> "get_reviews", user_id |-> user_id, text |-> None,
                          status |-> "raised", error |-> "OperationalError", hash |-> None,
                          dup |-> FALSE, rows |-> <<>>, conn |-> conn, owner |-> None ]
    /\ UNCHANGED <<table, now, flowVars, ingressVars>>
    /\ UNCHANGED extractVars
    /\ UNCHANGED sessionVars

\* A direct call of get_latest_review; a fault of its get_reviews call is not
\* caught.  last.rows holds the result, <<>> for None.
GetLatestReview(user_id, dbOk) ==
    /\ IF dbOk
       THEN \E latest \in get_latest_review(table, user_id), conn \in Connection(None) :
                last' = [ op |-> "get_latest_review", user_id |-> user_id, text |-> None,
                          status |-> "ok", error |-> None, hash |-> None, dup |-> FALSE,
                          rows |-> latest, conn |-> conn, owner |-> None ]
       ELSE \E conn \in Connection("OperationalError") :
                last' = [ op |-> "get_latest_review", user_id |-> user_id, text |-> None,
                          status |-> "raised", error |-> "OperationalError", hash |-> None,
                          dup |-> FALSE, rows |-> <<>>, conn |-> conn, owner |-> None ]
    /\ UNCHANGED <<table, now, flowVars, ingressVars>>
    /\ UNCHANGED extractVars
    /\ UNCHANGED sessionVars

----------------------------------------------------------------------------
(* Text helpers: Python's str operations on a content given as tokens      *)

\* The first position at which sep occurs in s, or 0 (sep in s; s.find).
IndexOf(s, sep) ==
    LET hits == { i \in 1..(Len(s) - Len(sep) + 1) : SubSeq(s, i, i + Len(sep) - 1) = sep }
    IN  IF hits = {} THEN 0 ELSE CHOOSE i \in hits : \A j \in hits : i <= j

Contains(s, sep) == IndexOf(s, sep) # 0

\* s.split(sep)[0]
SplitHead(s, sep) ==
    IF Contains(s, sep) THEN SubSeq(s, 1, IndexOf(s, sep) - 1) ELSE s

\* s.split(sep)[1], for s containing sep: the text between the first
\* occurrence of sep and the next one.
SplitSecond(s, sep) ==
    SplitHead(SubSeq(s, IndexOf(s, sep) + Len(sep), Len(s)), sep)

IsSpace(tok) == tok \in {NL, SP}

RECURSIVE lstrip(_)
lstrip(s) == IF s # <<>> /\ IsSpace(Head(s)) THEN lstrip(Tail(s)) ELSE s

RECURSIVE rstrip(_)
rstrip(s) == IF s # <<>> /\ IsSpace(s[Len(s)]) THEN rstrip(SubSeq(s, 1, Len(s) - 1)) ELSE s

\* s.strip()
strip(s) == rstrip(lstrip(s))

----------------------------------------------------------------------------
(* The review orchestrator: GrantReviewAgent                               *)

\* _parse_application_data: the ApplicationData of the JSON object between
\* the first '{' and the last '}', or None.
_parse_application_data(m) ==
    [ parsed     |-> m.json = "object",
      id         |-> IF m.json = "object" THEN m.id ELSE "",
      created_at |-> IF m.json = "object" THEN m.created_at ELSE "",
      content    |-> IF m.json = "object" THEN m.content ELSE <<>> ]

\* A content that is neither a str nor a container (a JSON number, true,
\* false or null): `label in content` raises TypeError.
NotText == <<"not a str">>

\* A content that is a JSON list is <<ListTag>> followed by its elements:
\* `label in content` is true when the label is an element, and content.split
\* then raises AttributeError.
ListTag == "list"

IsStr(content) == content # NotText /\ (content = <<>> \/ Head(content) # ListTag)

\* label in content
LabelIn(content, label) ==
    CASE content = NotText -> FALSE
      [] ~IsStr(content) -> \E i \in 2..Len(content) : content[i] = label
      [] OTHER -> Contains(content, <<label>>)

\* content.split(label)[-1].split("\n")[0].strip() without the test
\* `label in content`.
SingleLine_unchecked(content, label) ==
    strip(SplitHead(IF Contains(content, <<label>>) THEN SplitSecond(content, <<label>>)
                                                     ELSE content,
                    <<NL>>))

\* if label in content: content.split(label)[1].split("\n")[0].strip();
\* otherwise the field keeps its default "".
SingleLine(content, label) ==
    IF Contains(content, <<label>>)
    THEN strip(SplitHead(SplitSecond(content, <<label>>), <<NL>>))
    ELSE <<>>

\* if label in content: content.split(label)[1].split("\n\n")[0].strip()
MultiLine(content, label) ==
    IF Contains(content, <<label>>)
    THEN strip(SplitHead(SplitSecond(content, <<label>>), <<NL, NL>>))
    ELSE <<>>

\* _extract_application_sections.  One try block spans all fields: on a
\* content that is not a str the first test `label in content` raises, or the
\* first content.split of a label that is an element raises, or every test is
\* false; the except clause logs, no later field is attempted, and every
\* field keeps its default.
_extract_application_sections(content) ==
    LET text == IF IsStr(content) THEN content ELSE <<>>
        team == MultiLine(text, "Team Qualifications:")
    IN  [ project_fundamentals |->
            [ name               |-> SingleLine(text, NameLabel),
              website            |-> SingleLine(text, "Website URL:"),
              location           |-> SingleLine(text, "Location Information"),
              solana_integration |-> SingleLine(text, "Solana Integration:") ],
          technical_infrastructure |->
            [ github       |-> SingleLine(text, GH),
              architecture |-> MultiLine(text, "Technical Architecture:"),
              progress     |-> MultiLine(text, "Development Progress:"),
              open_source  |-> SingleLine(text, "Open Source Status:") ],
          market_innovation |->
            [ problem_solution   |-> MultiLine(text, PS),
              market_opportunity |-> MultiLine(text, "Market Opportunity:"),
              innovation         |-> MultiLine(text, "Technical Innovation:") ],
          public_good_impact |->
            [ community_benefit      |-> MultiLine(text, "Community Benefit:"),
              ecosystem_contribution |-> MultiLine(text, "Ecosystem Contribution:"),
              accessibility          |-> MultiLine(text, "Accessibility:") ],
          team_capability |->
            [ expertise    |-> team,
              track_record |-> team,
              completeness |-> team ],
          implementation_plan |->
            [ budget  |-> MultiLine(text, "Budget Proposal:"),
              roadmap |-> MultiLine(text, "Development Roadmap:"),
              metrics |-> MultiLine(text, "Success Metrics:") ] ]

\* len(repo_url.replace("https://github.com/", "").replace(".git", "").split('/'))
RepoPartCount(repo_url) ==
    IF \E i \in 1..Len(repo_url) : repo_url[i] = RepoUrl THEN 2 ELSE 1

Event(ev, arg, ok) == [ev |-> ev, arg |-> arg, ok |-> ok]

\* The context string, by its parts: kind is the template used, parts the
\* order of its sections, preview the number of characters of msg that the
\* parse-error text quotes.
NoContext ==
    [ kind |-> "none", parts |-> <<>>, applicant |-> None, application_id |-> None,
      submission_date |-> None, content |-> <<>>, github_analysis |-> "",
      market_analysis |-> "", rubric |-> FALSE, review_history |-> <<>>, preview |-> 0 ]

\* The outcomes of get_monthly_commit_count: a JSON text with the statistics,
\* a JSON text with an 'error' key, or an exception.
GithubOutcomes == {"stats", "error", "raise"}

\* The outcomes of perplexity_search: the summary, a failure marker returned
\* as text, or an exception.
MarketOutcomes == {"results", "error", "raise"}

\* A repository step that leaves the subsection out when the call fails.
GithubStep_omit(sections, gh) ==
    LET github == sections.technical_infrastructure.github IN
    IF github # <<>> /\ RepoPartCount(github) >= 2
    THEN [ analysis |-> IF gh = "stats" THEN "GitHub Repository Analysis" ELSE "",
           calls |-> <<Event("github", gh, gh # "raise")>> ]
    ELSE [ analysis |-> "", calls |-> <<>> ]

\* An adapter that is called whether or not the application names a repository.
GithubStep_unguarded(sections, gh) ==
    [ analysis |-> CASE gh = "stats" -> "GitHub Repository Analysis"
                     [] gh = "error" -> "Repository analysis failed"
                     [] OTHER -> "Unable to analyze repository activity",
      calls |-> <<Event("github", gh, gh # "raise")>> ]

\* The repository-activity step of _create_context: gh is the outcome of
\* get_monthly_commit_count ("stats", an "error" result, or "raise").
GithubStep(sections, gh) ==
    LET github == sections.technical_infrastructure.github IN
    IF github # <<>> /\ RepoPartCount(github) >= 2
    THEN [ analysis |-> CASE gh = "stats" -> "GitHub Repository Analysis"
                          [] gh = "error" -> "Repository analysis failed"
                          [] OTHER -> "Unable to analyze repository activity",
           calls |-> <<Event("github", gh, gh # "raise")>> ]
    ELSE [ analysis |-> "", calls |-> <<>> ]

\* A market step that leaves the subsection out when the call fails.
MarketStep_omit(sections, mk) ==
    IF sections.market_innovation.problem_solution # <<>>
    THEN [ analysis |-> IF mk = "results" THEN "Market Research Analysis: results" ELSE "",
           calls |-> <<Event("market", mk, mk # "raise")>> ]
    ELSE [ analysis |-> "", calls |-> <<>> ]

\* The market-research step of _create_context: mk is the outcome of
\* perplexity_search.  Whatever text the call returns is put under the
\* 'Market Research Analysis:' heading, a failure marker included.
MarketStep(sections, mk) ==
    IF sections.market_innovation.problem_solution # <<>>
    THEN [ analysis |-> CASE mk = "results" -> "Market Research Analysis: results"
                          [] mk = "error" -> "Market Research Analysis: failure marker"
                          [] OTHER -> "Unable to retrieve market insights",
           calls |-> <<Event("market", mk, mk # "raise")>> ]
    ELSE [ analysis |-> "", calls |-> <<>> ]

\* msg[:100] that keeps the whole message.
Preview_whole(m) == m.length

\* The slice bound of msg[:100].
PreviewLimit == 100

\* len(msg[:100])
Preview(m) == IF m.length <= PreviewLimit THEN m.length ELSE PreviewLimit

\* _create_context: the possible results for a message, given the outcomes
\* of the external calls it makes.
_create_context(m, user_id, tbl, gh, mk, dbOk) ==
    IF m.marker THEN
        LET app_data == _parse_application_data(m) IN
        IF app_data.parsed THEN
            LET sections == _extract_application_sections(app_data.content)
                github == GithubStep(sections, gh)
                market == MarketStep(sections, mk)
            IN  { [ status |-> "ok",
                    context |-> [ kind |-> "new_application",
                                  parts |-> <<"applicant_id", "application_id",
                                              "submission_date", "application_content",
                                              "technical_analysis", "market_research",
                                              "rubric">>,
                                  applicant |-> user_id,
                                  application_id |-> app_data.id,
                                  submission_date |-> app_data.created_at,
                                  content |-> app_data.content,
                                  github_analysis |-> github.analysis,
                                  market_analysis |-> market.analysis,
                                  rubric |-> TRUE, review_history |-> <<>>, preview |-> 0 ],
                    structured_data |-> TRUE,
                    calls |-> github.calls \o market.calls ] }
        ELSE
            { [ status |-> "ok",
                context |-> [NoContext EXCEPT !.kind = "parse_error",
                                              !.parts = <<"error", "preview">>,
                                              !.preview = Preview(m)],
                structured_data |-> FALSE,
                calls |-> <<>> ] }
    ELSE
        IF dbOk THEN
            { [ status |-> "ok",
                context |-> [NoContext EXCEPT !.kind = "follow_up",
                                              !.parts = <<"previous_reviews", "current_query">>,
                                              !.review_history = rows],
                structured_data |-> FALSE,
                calls |-> <<Event("get_reviews", user_id, TRUE)>> ] :
              rows \in get_reviews(tbl, user_id) }
        ELSE
            { [ status |-> "raised", context |-> NoContext, structured_data |-> FALSE,
                calls |-> <<Event("get_reviews", user_id, FALSE)>> ] }

\* No request is being served: process_application's locals do not exist.
NoRequest ==
    [ method |-> "GET", body |-> "none", meta |-> "absent", user_id |-> None,
      complete |-> FALSE, content_json |-> "none", inner |-> <<>> ]

\* next_action is entered: a caller passes msg, user_id and, optionally, a
\* reply callback.
NextAction_Start(m, u, cb) ==
    /\ pc = "idle"
    /\ ing_pc = "idle"
    /\ pc' = "create_context"
    /\ msg' = m
    /\ user' = u
    /\ reply_function' = cb
    /\ UNCHANGED <<context, structured_data, response_content, error, trace>>
    /\ UNCHANGED <<ledgerVars, ingressVars>>
    /\ UNCHANGED extractVars
    /\ UNCHANGED sessionVars

\* context, structured_data = await self._create_context(msg, user_id)
NextAction_CreateContext ==
    /\ pc = "create_context"
    /\ \E gh \in GithubOutcomes, mk \in MarketOutcomes, dbOk \in BOOLEAN :
         \E res \in _create_context(msg, user, table, gh, mk, dbOk) :
            /\ trace' = trace \o res.calls
            /\ context' = res.context
            /\ structured_data' = res.structured_data
            /\ IF res.status = "ok"
               THEN pc' = "run_agent" /\ error' = error
               ELSE pc' = "except" /\ error' = "OperationalError"
    /\ UNCHANGED <<ledgerVars, ingressVars, msg, user, reply_function, response_content>>
    /\ UNCHANGED extractVars
    /\ UNCHANGED sessionVars

\* The review is saved whatever the message.
SaveCondition_always(m, sd) == TRUE

\* The review is never saved.
SaveCondition_never(m, sd) == FALSE

\* if "New Grant Application Received" in msg and structured_data
SaveCondition(m, sd) == m.marker /\ sd

\* agent = self._initialize_agent(...); response = agent.run(context);
\* response_content = response.get_content_as_string()
NextAction_RunAgent ==
    /\ pc = "run_agent"
    /\ \/ \E out \in ReviewerOutputs :
            /\ response_content' = out
            /\ trace' = Append(trace, Event("reviewer", context.kind, TRUE))
            /\ pc' = IF SaveCondition(msg, structured_data) THEN "save_review" ELSE "reply"
            /\ error' = error
       \/ /\ trace' = Append(trace, Event("reviewer", context.kind, FALSE))
          /\ pc' = "except"
          /\ error' = "ReviewerError"
          /\ UNCHANGED response_content
    /\ UNCHANGED <<ledgerVars, ingressVars, msg, user, reply_function, context, structured_data>>
    /\ UNCHANGED extractVars
    /\ UNCHANGED sessionVars

\* The application_content next_action hands to add_review: msg, a str.
SaveArgument(m) == AppStr

\* await knowledge.knowledge_base.add_review(user_id, msg, response_content)
NextAction_SaveReview ==
    /\ pc = "save_review"
    /\ \E embedOk \in BOOLEAN, dbOk \in BOOLEAN, at \in now..MaxTime :
         LET res == add_review(table, at, user, SaveArgument(msg), response_content, embedOk, dbOk) IN
         /\ table' = res.table
         /\ now' = IF res.table # table THEN at ELSE now
         /\ trace' = Append(trace, Event("add_review", res.error, res.status = "ok"))
         /\ IF res.status = "ok"
            THEN pc' = "reply" /\ error' = error
            ELSE pc' = "except" /\ error' = res.error
    /\ UNCHANGED <<last, ingressVars, msg, user, reply_function, context, structured_data, response_content>>
    /\ UNCHANGED extractVars
    /\ UNCHANGED sessionVars

\* tg.send_message_with_retry(funder_chat_id, ...): the message reaches the
\* funder's chat when the send succeeds.
Send(chat, kind, ok) == IF ok THEN Append(chat, kind) ELSE chat

\* The reply callback of process_application sends to the funder's chat; a
\* direct caller's callback does not.
telegram_reply(chat, kind, ok) == IF ing_pc = "review" THEN Send(chat, kind, ok) ELSE chat

\* The success path does not reply.
ReplyCondition_never(cb) == FALSE

\* if reply_function: (line 419)
ReplyCondition(cb) == cb

\* The except clause does not reply.
ExceptReplyCondition_never(cb) == FALSE

\* if reply_function: (line 428, in the except clause)
ExceptReplyCondition(cb) == cb

\* if reply_function: await reply_function(response_content); return
NextAction_Reply ==
    /\ pc = "reply"
    /\ IF ReplyCondition(reply_function)
       THEN \E ok \in BOOLEAN :
              /\ trace' = Append(trace, Event("reply", "review", ok))
              /\ funder_chat' = telegram_reply(funder_chat, "review", ok)
              /\ IF ok
                 THEN pc' = "returned" /\ error' = error
                 ELSE pc' = "except" /\ error' = "ReplyError"
       ELSE pc' = "returned" /\ UNCHANGED <<trace, error, funder_chat>>
    /\ UNCHANGED <<ledgerVars, ing_pc, request, http_result, msg, user, reply_function, context,
                   structured_data, response_content>>
    /\ UNCHANGED extractVars
    /\ UNCHANGED sessionVars

\* except Exception as e: if reply_function: await reply_function(error
\* message); raise
NextAction_Except ==
    /\ pc = "except"
    /\ pc' = "raised"
    /\ IF ExceptReplyCondition(reply_function)
       THEN \E ok \in BOOLEAN :
              /\ trace' = Append(trace, Event("reply", "error", ok))
              /\ funder_chat' = telegram_reply(funder_chat, "error", ok)
              /\ error' = IF ok THEN error ELSE "ReplyError"
       ELSE UNCHANGED <<trace, error, funder_chat>>
    /\ UNCHANGED <<ledgerVars, ing_pc, request, http_result, msg, user, reply_function, context,
                   structured_data, response_content>>
    /\ UNCHANGED extractVars
    /\ UNCHANGED sessionVars

\* The locals of a call that has ended.
FlowReset ==
    /\ pc' = "idle"
    /\ msg' = Msg(FALSE, "none", "", "", <<>>)
    /\ user' = "u1"
    /\ reply_function' = FALSE
    /\ context' = NoContext
    /\ structured_data' = FALSE
    /\ response_content' = None
    /\ error' = None
    /\ trace' = <<>>

\* next_action has returned or raised to a direct caller: the call is over.
NextAction_End ==
    /\ pc \in {"returned", "raised"}
    /\ ing_pc = "idle"
    /\ FlowReset
    /\ UNCHANGED <<ledgerVars, ingressVars>>
    /\ UNCHANGED extractVars
    /\ UNCHANGED sessionVars

NextAction ==
    \/ \E m \in Msgs, u \in UserIds, cb \in BOOLEAN : NextAction_Start(m, u, cb)
    \/ NextAction_CreateContext
    \/ NextAction_RunAgent
    \/ NextAction_SaveReview
    \/ NextAction_Reply
    \/ NextAction_Except
    \/ NextAction_End

----------------------------------------------------------------------------
(* The HTTP ingress: process_application                                   *)

\* A request to /submit/.  body: what application.application holds ("none":
\* no body, "malformed": not JSON, "non_object": JSON that is no object,
\* "object"); meta: the object's meta_data ("absent", "not_dict", "dict");
\* user_id: meta_data's user_id (None when the key is absent); complete:
\* the keys name, content, created_at and document_type are all present;
\* content_json and inner: what lies between the first '{' and the last '}'
\* of the formatted text, and the content of that JSON object.
Request(method, body, meta, user_id, complete, content_json, inner) ==
    [ method |-> method, body |-> body, meta |-> meta, user_id |-> user_id,
      complete |-> complete, content_json |-> content_json, inner |-> inner ]

Requests ==
    { Request("GET", "none", "absent", None, FALSE, "none", <<>>),
      Request("POST", "none", "absent", None, FALSE, "none", <<>>),
      Request("POST", "malformed", "absent", None, FALSE, "none", <<>>),
      Request("POST", "non_object", "absent", None, FALSE, "none", <<>>),
      Request("POST", "object", "absent", None, TRUE, "none", <<>>),
      Request("POST", "object", "not_dict", None, TRUE, "none", <<>>),
      Request("POST", "object", "dict", None, TRUE, "none", <<>>),
      Request("POST", "object", "dict", "", TRUE, "none", <<>>),
      Request("POST", "object", "dict", "u1", FALSE, "none", <<>>) }
    \cup { Request("POST", "object", "dict", u, TRUE, "none", <<>>) : u \in UserIds }
    \cup { Request("POST", "object", "dict", u, TRUE, "invalid", <<>>) : u \in UserIds }
    \cup { Request("POST", "object", "dict", u, TRUE, "object", c) :
             u \in UserIds, c \in { <<>>, <<GH, SP, RepoUrl, NL, PS, SP, Word, NL, NL, Word>> } }

\* format_application_text: the marker line, then the user id, the
\* application id, and the name, content, created_at and document_type.
format_application_text(req) ==
    Msg(TRUE, req.content_json, "", "", req.inner)

\* The line at which process_application assigns funder_chat_id.
FunderChatIdAssigned == 112

\* if user_id is None
not_user_id_is_none(req) == req.meta = "absent" \/ req.user_id = None

\* if not user_id, with user_id = app_data['meta_data'].get('user_id') if
\* 'meta_data' in app_data else None
not_user_id(req) == req.meta = "absent" \/ req.user_id \in {None, ""}

\* The first exception raised in lines 94-122, with its line (0: none).
EntryException(req) ==
    CASE req.method = "GET" -> [line |-> 0, exc |-> None]
      [] req.method = "POST" /\ req.body = "none" -> [line |-> 104, exc |-> "AttributeError"]
      [] req.method = "POST" /\ req.body = "malformed" -> [line |-> 104, exc |-> "JSONDecodeError"]
      [] req.method = "POST" /\ req.body = "non_object" -> [line |-> 110, exc |-> "AttributeError"]
      [] req.method = "POST" /\ req.body = "object" /\ req.meta = "not_dict" ->
            [line |-> 108, exc |-> "AttributeError"]
      [] req.method = "POST" /\ req.body = "object" /\ req.meta # "not_dict"
            /\ ~not_user_id(req) /\ ~req.complete -> [line |-> 122, exc |-> "KeyError"]
      [] OTHER -> [line |-> 0, exc |-> None]

\* The except clauses of lines 151-160.  Each reads funder_chat_id, a local
\* that exists only once line 112 has run: before that, the read raises
\* UnboundLocalError inside the handler, and the exception leaves
\* process_application.
EntryHandler(e) ==
    IF e.line <= FunderChatIdAssigned
    THEN [outcome |-> "escaped", result |-> "UnboundLocalError", notify |-> FALSE]
    ELSE [outcome |-> "return",
          result |-> IF e.exc = "JSONDecodeError" THEN "Invalid application format"
                     ELSE "Internal server error",
          notify |-> TRUE]

\* process_application up to the call of next_action, or to its early end.
\* "escaped": an exception leaves process_application.
process_application_entry(req) ==
    LET e == EntryException(req) IN
    IF req.method = "GET" THEN
        [outcome |-> "return", result |-> "GET request received", notify |-> FALSE]
    ELSE IF e.line # 0 THEN
        EntryHandler(e)
    ELSE IF not_user_id(req) THEN
        [outcome |-> "return", result |-> "Invalid application data", notify |-> TRUE]
    ELSE
        [outcome |-> "review", result |-> None, notify |-> FALSE]

\* process_application, lines 93-138.
ProcessApplication_Request(req) ==
    /\ ing_pc = "idle"
    /\ pc = "idle"
    /\ request' = req
    /\ LET entry == process_application_entry(req) IN
       IF entry.outcome = "review"
       THEN /\ ing_pc' = "review"
            /\ pc' = "create_context"
            /\ msg' = format_application_text(req)
            /\ user' = req.user_id
            /\ reply_function' = TRUE
            /\ UNCHANGED <<http_result, funder_chat>>
       ELSE /\ ing_pc' = "done"
            /\ http_result' = (IF entry.outcome = "escaped" THEN "raised " ELSE "") \o entry.result
            /\ IF entry.notify
               THEN \E ok \in BOOLEAN : funder_chat' = Send(funder_chat, "error_notification", ok)
               ELSE UNCHANGED funder_chat
            /\ UNCHANGED <<pc, msg, user, reply_function>>
    /\ UNCHANGED <<ledgerVars, context, structured_data, response_content, error, trace>>
    /\ UNCHANGED extractVars
    /\ UNCHANGED sessionVars

\* if not review_result: raise Exception(...)
ReviewGenerated(flow_pc, review_result) == flow_pc = "returned" /\ review_result # ""

\* process_application, lines 140-149: next_action returned or raised.
ProcessApplication_Complete ==
    /\ ing_pc = "review"
    /\ pc \in {"returned", "raised"}
    /\ ing_pc' = "done"
    /\ IF ReviewGenerated(pc, response_content)
       THEN /\ http_result' = "Application received and review generated"
            /\ UNCHANGED funder_chat
       ELSE /\ http_result' = "Failed to generate review"
            /\ \E ok \in BOOLEAN : funder_chat' = Send(funder_chat, "error_notification", ok)
    /\ UNCHANGED <<ledgerVars, flowVars, request>>
    /\ UNCHANGED extractVars
    /\ UNCHANGED sessionVars

\* process_application has returned (or an exception has left it): the
\* request is over.
ProcessApplication_End ==
    /\ ing_pc = "done"
    /\ ing_pc' = "idle"
    /\ request' = NoRequest
    /\ http_result' = None
    /\ funder_chat' = <<>>
    /\ FlowReset
    /\ UNCHANGED ledgerVars
    /\ UNCHANGED extractVars
    /\ UNCHANGED sessionVars

Ingress ==
    \/ \E req \in Requests : ProcessApplication_Request(req)
    \/ ProcessApplication_Complete
    \/ ProcessApplication_End

----------------------------------------------------------------------------
vars == <<table, now, last, pc, msg, user, reply_function, context, structured_data,
          response_content, error, trace, ing_pc, request, http_result, funder_chat,
          extract_input, extracted, agents>>

FlowInit ==
    /\ pc = "idle"
    /\ msg = Msg(FALSE, "none", "", "", <<>>)
    /\ user = "u1"
    /\ reply_function = FALSE
    /\ context = NoContext
    /\ structured_data = FALSE
    /\ response_content = None
    /\ error = None
    /\ trace = <<>>

IngressInit ==
    /\ ing_pc = "idle"
    /\ request = NoRequest
    /\ http_result = None
    /\ funder_chat = <<>>

\* No content has been handed to _extract_application_sections.
ExtractIdle ==
    /\ extract_input = <<>>
    /\ extracted = <<>>

\* No reviewer agent has been built.
NoAgents == agents = <<>>

\* The section extractor on its own: a caller hands it a content and applies
\* it, up to MaxApply times.  The contents are all texts of at most
\* MaxContentLen tokens, and one value that is not a str.
ContentTokens == {NameLabel, GH, PS, NL, SP, Word}

ListContents ==
    { <<ListTag>> \o elems :
        elems \in UNION { [1..n -> {NameLabel, GH, PS}] : n \in 0..MaxListLen } }

ExtractContents ==
    UNION { [1..n -> ContentTokens] : n \in 0..MaxContentLen } \cup {NotText} \cup ListContents

ExtractInit ==
    /\ table = {}
    /\ now = 0
    /\ last = NoCall
    /\ FlowInit
    /\ IngressInit
    /\ extract_input \in ExtractContents
    /\ extracted = <<>>
    /\ NoAgents

\* sections = self._extract_application_sections(content)
ExtractSections ==
    /\ Len(extracted) < MaxApply
    /\ extracted' = Append(extracted, _extract_application_sections(extract_input))
    /\ UNCHANGED <<ledgerVars, flowVars, ingressVars, extract_input>>
    /\ UNCHANGED sessionVars

ExtractSpec == ExtractInit /\ [][ExtractSections]_vars

\* The user and chat identifiers handed to _initialize_agent: next_action
\* takes them from its caller unchecked, and an identifier may hold a '_'.
SessionUserIds == {"a", "a_b", "b", "7"}
SessionChatIds == {"c", "b_c", "1002322529093"}

\* session_id=f"grant_review_{user_id}_{chat_id}"
session_id(user_id, chat_id) == "grant_review_" \o user_id \o "_" \o chat_id

\* agent = self._initialize_agent(user_id, chat_id), for one flow after another.
InitializeAgent(user_id, chat_id) ==
    /\ Len(agents) < MaxAgents
    /\ agents' = Append(agents, [ user_id |-> user_id, chat_id |-> chat_id,
                                   session_id |-> session_id(user_id, chat_id) ])
    /\ UNCHANGED <<ledgerVars, flowVars, ingressVars, extractVars>>

SessionInit ==
    /\ table = {}
    /\ now = 0
    /\ last = NoCall
    /\ FlowInit
    /\ IngressInit
    /\ ExtractIdle
    /\ NoAgents

SessionNext == \E u \in SessionUserIds, c \in SessionChatIds : InitializeAgent(u, c)

SessionSpec == SessionInit /\ [][SessionNext]_vars

\* The ledger on its own, under direct calls.
LedgerInit ==
    /\ table = {}
    /\ now = 0
    /\ last = NoCall
    /\ FlowInit
    /\ IngressInit
    /\ ExtractIdle
    /\ NoAgents

LedgerCall ==
    \/ \E u \in UserIds, app \in AppDicts, t \in ReviewTexts, embedOk \in BOOLEAN, dbOk \in BOOLEAN :
           AddReview(u, app, t, embedOk, dbOk)
    \/ \E u \in UserIds, dbOk \in BOOLEAN : GetReviews(u, dbOk)
    \/ \E u \in UserIds, dbOk \in BOOLEAN : GetLatestReview(u, dbOk)

LedgerSpec == LedgerInit /\ [][LedgerCall]_vars

\* Ledger states left by earlier successful add_review calls.
RECURSIVE PriorTables(_)
PriorTables(n) ==
    IF n = 0 THEN {{}}
    ELSE LET prev == PriorTables(n - 1) IN
         prev \cup { add_review(tbl, at, u, app, t, TRUE, TRUE).table :
                       tbl \in prev, at \in 0..MaxTime, u \in UserIds,
                       app \in {a \in AppDicts : a.hasId}, t \in ReviewTexts }

Clock(tbl) == IF tbl = {} THEN 0 ELSE CHOOSE c \in 0..MaxTime :
                  /\ \E r \in tbl : r.created_at = c
                  /\ \A r \in tbl : r.created_at <= c

Init ==
    /\ table \in PriorTables(MaxPrior)
    /\ now = Clock(table)
    /\ last = NoCall
    /\ FlowInit
    /\ IngressInit
    /\ ExtractIdle
    /\ NoAgents

Next == NextAction \/ Ingress

Spec == Init /\ [][Next]_vars

----------------------------------------------------------------------------
(* Properties                                                              *)

EventIndices(ev) == { i \in DOMAIN trace : trace[i].ev = ev }

ReviewerSucceeded == \E i \in EventIndices("reviewer") : trace[i].ok

ReviewerFailed == \E i \in EventIndices("reviewer") : ~trace[i].ok

FlowEnded == pc \in {"returned", "raised"}

\* Faults of the collaborators of add_review (the embedder, the store).
StorageFaults == {"EmbedderError", "OperationalError"}

\* C1: when add_review is called with a text the same user has already
\* stored, and neither the embedder nor the store fails, the call completes
\* without error, returns the content hash of the text, and the ledger holds
\* exactly one row for the text.
C1_SecondAddReviewIsNoOp ==
    (last.op = "add_review" /\ last.dup /\ last.error \notin StorageFaults)
        => /\ last.status = "ok"
           /\ last.hash = md5(last.text)
           /\ Cardinality({ r \in table : r.content = last.text }) = 1

\* C2: when a flow for a new-application message whose payload parsed ends,
\* the reviewer having succeeded and no collaborator of the ledger or reply
\* callback having failed, it has returned the review text and the ledger
\* holds a record with that text and the caller's user_id, written by the
\* flow.
C2_NewApplicationReviewPersisted ==
    ( /\ FlowEnded
      /\ msg.marker
      /\ _parse_application_data(msg).parsed
      /\ ReviewerSucceeded
      /\ \A i \in EventIndices("add_review") : trace[i].arg \notin StorageFaults
      /\ \A i \in EventIndices("reply") : trace[i].ok )
        => /\ pc = "returned"
           /\ Cardinality({ i \in EventIndices("add_review") : trace[i].ok }) = 1
           /\ \E r \in table : r.content = response_content /\ r.user_id = user

WellFormed(req) ==
    /\ req.method = "POST"
    /\ req.body = "object"
    /\ req.meta = "dict"
    /\ req.user_id \in UserIds
    /\ req.complete

\* C3: when the ingress returns its success result for a well-formed
\* application, the flow has extracted the sections of the application
\* content, built the new-application context from them, and written a
\* review to the ledger.
C3_SuccessMeansReviewWritten ==
    ( /\ ing_pc = "done"
      /\ WellFormed(request)
      /\ ReviewerSucceeded
      /\ http_result = "Application received and review generated" )
        => /\ structured_data
           /\ context.kind = "new_application"
           /\ \E i \in EventIndices("add_review") : trace[i].ok

\* C4: when the ingress has finished a POST whose payload is not JSON, its
\* result is the returned value 'Invalid application format' (no exception
\* has left process_application), and the flow made no call: no reviewer,
\* no ledger write.
C4_MalformedJsonIsReported ==
    (ing_pc = "done" /\ request.method = "POST" /\ request.body = "malformed")
        => /\ http_result = "Invalid application format"
           /\ pc = "idle"
           /\ trace = <<>>

MissingUserId(req) ==
    /\ req.method = "POST"
    /\ req.body = "object"
    /\ \/ req.meta = "absent"
       \/ req.meta = "dict" /\ req.user_id \in {None, ""}

\* C5: a POST whose JSON object has no meta_data, or a meta_data without
\* user_id or with an empty one, ends at once with the returned result
\* 'Invalid application data'; no review flow is started and no call to the
\* reviewer, the enrichment adapters or the ledger is made.
C5_MissingUserIdIsRejected ==
    MissingUserId(request)
        => /\ ing_pc = "done"
           /\ http_result = "Invalid application data"
           /\ pc = "idle"
           /\ trace = <<>>

C5_Witness ==
    /\ ing_pc = "done"
    /\ request.meta = "dict"
    /\ request.user_id = ""
    /\ http_result = "Invalid application data"

\* C6: in every flow the reply callback is invoked at most once, and never
\* when none was supplied.
C6_ReplyAtMostOnce ==
    Cardinality(EventIndices("reply")) <= (IF reply_function THEN 1 ELSE 0)

\* C7: once the reviewer invocation has failed, the flow makes no ledger
\* write and never replies with a review text; it ends by raising, having
\* invoked the reply callback (when supplied) with an error message, and
\* what it raises is the reviewer's failure unless that callback failed.
C7_ReviewerFailureIsReraised ==
    ReviewerFailed
        => /\ pc \in {"except", "raised"}
           /\ EventIndices("add_review") = {}
           /\ \A k \in EventIndices("reply") : trace[k].arg = "error"
           /\ pc = "raised" =>
                /\ reply_function => EventIndices("reply") # {}
                /\ \/ error = "ReviewerError"
                   \/ error = "ReplyError" /\ \E k \in EventIndices("reply") : ~trace[k].ok

C7_Witness ==
    /\ pc = "raised"
    /\ ReviewerFailed
    /\ reply_function
    /\ error = "ReviewerError"
    /\ \E k \in EventIndices("reply") : trace[k].arg = "error" /\ trace[k].ok

\* C8: every ledger write of a flow comes after a successful reviewer call
\* and before every invocation of the reply callback; on the
\* new-application path the callback receives the review text only after a
\* ledger write that succeeded, and in a flow whose ledger write failed it
\* never receives the review text.
C8_WriteBetweenReviewAndReply ==
    /\ \A i \in EventIndices("add_review") :
          /\ \E j \in EventIndices("reviewer") : j < i /\ trace[j].ok
          /\ \A k \in EventIndices("reply") : i < k
    /\ (msg.marker /\ structured_data) =>
          \A k \in EventIndices("reply") :
             trace[k].arg = "review" => \E i \in EventIndices("add_review") : i < k /\ trace[i].ok
    /\ (\E i \in EventIndices("add_review") : ~trace[i].ok) =>
          \A k \in EventIndices("reply") : trace[k].arg # "review"

C8_Witness ==
    \E i \in EventIndices("add_review") :
        /\ ~trace[i].ok
        /\ \E j \in EventIndices("reviewer") : j < i /\ trace[j].ok
        /\ \E k \in EventIndices("reply") : i < k /\ trace[k].arg = "error"

\* C9: a flow that was given a reply callback has invoked it, with the
\* review text or with an error message, by the time it returns or raises.
C9_EndedFlowHasReplied ==
    (FlowEnded /\ reply_function)
        => \E k \in EventIndices("reply") : trace[k].arg \in {"review", "error"}

C9_Witness ==
    /\ pc = "returned"
    /\ reply_function
    /\ \E k \in EventIndices("reply") : trace[k].arg = "review" /\ trace[k].ok

\* C10: the rows get_reviews returns are in non-increasing created_at
\* order.
C10_NewestFirst ==
    (last.op = "get_reviews" /\ last.status = "ok")
        => \A i, j \in DOMAIN last.rows :
              i < j => last.rows[i].created_at >= last.rows[j].created_at

C10_Witness ==
    /\ last.op = "get_reviews"
    /\ Len(last.rows) >= 2
    /\ last.rows[1].created_at > last.rows[2].created_at

\* C11: get_reviews(userId) returns exactly the stored records whose metadata
\* user_id equals userId, each once, none of another user's and none missing;
\* for a user without records it returns the empty sequence and no error (it
\* raises on a storage fault only).
C11_ExactlyTheUsersRecords ==
    last.op = "get_reviews" =>
        /\ last.status = "raised" => last.error \in {"OperationalError"}
        /\ last.status = "ok" =>
              /\ { last.rows[i] : i \in 1..Len(last.rows) }
                   = { FormatReview(r) : r \in { x \in table : x.user_id = last.user_id } }
              /\ Len(last.rows) = Cardinality({ x \in table : x.user_id = last.user_id })
              /\ \A i \in 1..Len(last.rows) : last.rows[i].user_id = last.user_id

\* The table holds a record of each of two users and the call returned one.
C11_Witness ==
    /\ last.op = "get_reviews"
    /\ last.status = "ok"
    /\ Len(last.rows) = 1
    /\ \E r \in table : r.user_id # last.user_id

\* The user has no record, another user has one: the empty sequence, no error.
C11_WitnessEmpty ==
    /\ last.op = "get_reviews"
    /\ last.status = "ok"
    /\ last.rows = <<>>
    /\ table # {}

\* C12: in every ledger state get_latest_review(userId) is None when the user
\* has no stored record, and otherwise the first element of a result of
\* get_reviews(userId) on that state: one of the user's records, and none of
\* the user's records is newer.
C12_LatestIsFirstOfGetReviews ==
    (last.op = "get_latest_review" /\ last.status = "ok") =>
        LET mine == { x \in table : x.user_id = last.user_id } IN
        IF mine = {} THEN last.rows = <<>>
        ELSE /\ Len(last.rows) = 1
             /\ \E r \in mine : last.rows[1] = FormatReview(r)
             /\ \A r \in mine : r.created_at <= last.rows[1].created_at
             /\ \E rows \in get_reviews(table, last.user_id) : last.rows[1] = rows[1]

\* The user has an older and a newer record, and the newer one was returned.
C12_Witness ==
    /\ last.op = "get_latest_review"
    /\ last.status = "ok"
    /\ Len(last.rows) = 1
    /\ \E r \in table : r.user_id = last.user_id /\ r.created_at < last.rows[1].created_at

\* C13: a call of add_review with a text that is not stored yet, and without a
\* storage or embedding fault, stores a row for the text, and the hash it
\* returns differs from the hash of every row that holds another text.
C13_DistinctTextsDistinctHashes ==
    (/\ last.op = "add_review"
     /\ last.error \notin {"EmbedderError", "AttributeError", "OperationalError"}
     /\ ~(last.status = "raised" /\ \E r \in table : r.content = last.text)) =>
        /\ last.status = "ok"
        /\ \E r \in table : r.content = last.text /\ r.content_hash = last.hash
        /\ \A r \in table : r.content # last.text => r.content_hash # last.hash

\* _create_context has returned or raised.
ContextBuilt == pc \notin {"idle", "create_context"}

\* Both enrichment adapters were called and failed, each by an error result or
\* by raising.
BothAdaptersFailed ==
    /\ \E i \in EventIndices("github") : trace[i].arg \in {"error", "raise"}
    /\ \E j \in EventIndices("market") : trace[j].arg \in {"error", "raise"}

ParseFailed == msg.marker /\ ~_parse_application_data(msg).parsed

\* C15: when the marker is present but the payload cannot be parsed,
\* _create_context does not fail: it returns the parse-error message, which
\* quotes at most the first 100 characters of the raw message, and no
\* structured data; the reviewer is invoked with that message, no enrichment
\* adapter runs and no review is persisted.
C15_ParseErrorContext ==
    (ParseFailed /\ ContextBuilt) =>
        /\ context.kind = "parse_error"
        /\ context.parts = <<"error", "preview">>
        /\ context.preview <= 100
        /\ context.preview <= msg.length
        /\ context.preview = 100 \/ context.preview = msg.length
        /\ ~structured_data
        /\ EventIndices("github") = {}
        /\ EventIndices("market") = {}
        /\ EventIndices("add_review") = {}
        /\ pc # "save_review"
        /\ \/ pc = "run_agent"
           \/ \E r \in EventIndices("reviewer") : trace[r].arg = "parse_error"

\* A message longer than 100 characters was cut, and the flow returned.
C15_Witness ==
    /\ ParseFailed
    /\ msg.length > 100
    /\ context.preview = 100
    /\ pc = "returned"
    /\ \E r \in EventIndices("reviewer") : trace[r].arg = "parse_error" /\ trace[r].ok

\* C16: in follow-up mode (no marker) the first thing the flow does is read
\* the user's reviews from the ledger; the context holds exactly the user's
\* reviews, newest first, before the current query; no sections are
\* extracted, no adapter is called and nothing is written to the ledger.
C16_FollowUpContext ==
    (~msg.marker /\ ContextBuilt) =>
        /\ EventIndices("get_reviews") = {1}
        /\ trace[1].arg = user
        /\ EventIndices("github") = {}
        /\ EventIndices("market") = {}
        /\ EventIndices("add_review") = {}
        /\ pc # "save_review"
        /\ ~structured_data
        /\ trace[1].ok =>
              /\ context.kind = "follow_up"
              /\ context.parts = <<"previous_reviews", "current_query">>
              /\ { context.review_history[i] : i \in DOMAIN context.review_history }
                   = { FormatReview(r) : r \in { x \in table : x.user_id = user } }
              /\ \A i, j \in DOMAIN context.review_history :
                    i < j => context.review_history[i].created_at
                                >= context.review_history[j].created_at
        /\ ~trace[1].ok => pc \in {"except", "raised"} /\ EventIndices("reviewer") = {}

\* A follow-up of a user with an older and a newer review.
C16_Witness ==
    /\ ~msg.marker
    /\ pc = "returned"
    /\ Len(context.review_history) = 2
    /\ context.review_history[1].created_at > context.review_history[2].created_at

\* C18: when the reply callback fails on the review text, next_action still
\* returns the review text and does not raise.
C18_CallbackFailureIsTolerated ==
    (FlowEnded /\ \E k \in EventIndices("reply") : trace[k].arg = "review" /\ ~trace[k].ok)
        => pc = "returned"

\* The i-th call of the flow is a ledger operation that failed on a fault of
\* the store or of the embedder.
LedgerFault(i) ==
    /\ ~trace[i].ok
    /\ \/ trace[i].ev = "get_reviews"
       \/ trace[i].ev = "add_review" /\ trace[i].arg \in StorageFaults

\* The exception the failed ledger operation raised.
FaultRaised(i) == IF trace[i].ev = "get_reviews" THEN "OperationalError" ELSE trace[i].arg

\* C19: a storage fault during a ledger operation is not swallowed.  An
\* add_review whose store fails raises and stores nothing.  In a flow, the
\* failed ledger operation is the last call before the except clause: nothing
\* is retried and the reviewer is not run after it; the flow ends by raising,
\* after one call of the reply callback with the error message when a
\* callback was supplied, and what it raises is the fault (unless the callback
\* itself failed).
C19_StorageFaultIsRaised ==
    /\ \A u \in UserIds, app \in AppDicts, t \in ReviewTexts :
          LET res == add_review(table, now, u, app, t, TRUE, FALSE) IN
          res.status = "raised" /\ res.table = table
    /\ \A i \in DOMAIN trace :
          LedgerFault(i) =>
            /\ pc \in {"except", "raised"}
            /\ pc = "except" => i = Len(trace) /\ error = FaultRaised(i)
            /\ pc = "raised" =>
                 IF reply_function
                 THEN /\ Len(trace) = i + 1
                      /\ trace[i + 1].ev = "reply"
                      /\ trace[i + 1].arg = "error"
                      /\ trace[i + 1].ok => error = FaultRaised(i)
                 ELSE i = Len(trace) /\ error = FaultRaised(i)
            /\ Cardinality(EventIndices(trace[i].ev)) = 1

\* get_reviews failed in a follow-up, the error message was delivered through
\* the callback, and the flow raised the fault.
C19_Witness ==
    /\ pc = "raised"
    /\ Len(trace) = 2
    /\ trace[1].ev = "get_reviews" /\ ~trace[1].ok
    /\ trace[2].ev = "reply" /\ trace[2].arg = "error" /\ trace[2].ok
    /\ error = "OperationalError"

\* The message carries the marker and an application was parsed from it.
ParsedApplication == msg.marker /\ _parse_application_data(msg).parsed

\* C20 as stated: in every new-application flow with a parsed payload both
\* enrichment adapters are run, each exactly once, whichever section fields
\* are empty.
C20_BothAdaptersAlwaysRun ==
    (ParsedApplication /\ ContextBuilt) =>
        /\ Cardinality(EventIndices("github")) = 1
        /\ Cardinality(EventIndices("market")) = 1

\* C20, amended: in a new-application flow with a parsed payload each
\* enrichment adapter is run at most once and never retried: the repository
\* adapter exactly once when the extracted github field is non-empty and
\* names owner/repo, the market adapter exactly once when the extracted
\* problem_solution field is non-empty, the repository adapter first; an
\* adapter whose field is empty is not run.
C20_AdaptersRunOncePerPresentField ==
    (ParsedApplication /\ ContextBuilt) =>
        LET sections == _extract_application_sections(msg.content)
            github == sections.technical_infrastructure.github
            problem_solution == sections.market_innovation.problem_solution
        IN  /\ Cardinality(EventIndices("github"))
                 = IF github # <<>> /\ RepoPartCount(github) >= 2 THEN 1 ELSE 0
            /\ Cardinality(EventIndices("market")) = IF problem_solution # <<>> THEN 1 ELSE 0
            /\ \A i \in EventIndices("github"), j \in EventIndices("market") : i < j

\* Both fields are present: each adapter was called once, one failed, and the
\* reviewer ran.
C20_Witness ==
    /\ ParsedApplication
    /\ Cardinality(EventIndices("github")) = 1
    /\ Cardinality(EventIndices("market")) = 1
    /\ \E i \in EventIndices("github") : ~trace[i].ok
    /\ ReviewerSucceeded

\* The application names no repository: only the market adapter was called.
C20_WitnessNoRepository ==
    /\ ParsedApplication
    /\ EventIndices("github") = {}
    /\ Cardinality(EventIndices("market")) = 1
    /\ ReviewerSucceeded

\* The categories of the sections mapping and the keys of each.
SectionKeys ==
    [ project_fundamentals     |-> {"name", "website", "location", "solana_integration"},
      technical_infrastructure |-> {"github", "architecture", "progress", "open_source"},
      market_innovation        |-> {"problem_solution", "market_opportunity", "innovation"},
      public_good_impact       |-> {"community_benefit", "ecosystem_contribution", "accessibility"},
      team_capability          |-> {"expertise", "track_record", "completeness"},
      implementation_plan      |-> {"budget", "roadmap", "metrics"} ]

\* Category, sub-field and the label the sub-field is read from.
FieldLabels ==
    { <<"project_fundamentals", "name", "Company/Project Name:">>,
      <<"project_fundamentals", "website", "Website URL:">>,
      <<"project_fundamentals", "location", "Location Information">>,
      <<"project_fundamentals", "solana_integration", "Solana Integration:">>,
      <<"technical_infrastructure", "github", "Project GitHub Repository:">>,
      <<"technical_infrastructure", "architecture", "Technical Architecture:">>,
      <<"technical_infrastructure", "progress", "Development Progress:">>,
      <<"technical_infrastructure", "open_source", "Open Source Status:">>,
      <<"market_innovation", "problem_solution", "Problem Solution Fit:">>,
      <<"market_innovation", "market_opportunity", "Market Opportunity:">>,
      <<"market_innovation", "innovation", "Technical Innovation:">>,
      <<"public_good_impact", "community_benefit", "Community Benefit:">>,
      <<"public_good_impact", "ecosystem_contribution", "Ecosystem Contribution:">>,
      <<"public_good_impact", "accessibility", "Accessibility:">>,
      <<"team_capability", "expertise", "Team Qualifications:">>,
      <<"team_capability", "track_record", "Team Qualifications:">>,
      <<"team_capability", "completeness", "Team Qualifications:">>,
      <<"implementation_plan", "budget", "Budget Proposal:">>,
      <<"implementation_plan", "roadmap", "Development Roadmap:">>,
      <<"implementation_plan", "metrics", "Success Metrics:">> }

\* C17: for every content, every application of _extract_application_sections
\* returns a mapping with the six categories and each category's sub-field
\* keys, in which every sub-field whose label is absent from the content is
\* the empty string; a second application to the same content returns the
\* same mapping.
C17_AllSectionsAlwaysPresent ==
    \A k \in DOMAIN extracted :
        LET r == extracted[k] IN
        /\ DOMAIN r = DOMAIN SectionKeys
        /\ \A c \in DOMAIN SectionKeys : DOMAIN r[c] = SectionKeys[c]
        /\ \A f \in FieldLabels :
              ~(\E i \in DOMAIN extract_input : extract_input[i] = f[3]) => r[f[1]][f[2]] = <<>>
        /\ r = extracted[1]

\* Two applications to a content that has a project name and no repository
\* label: the name was extracted, the github field is empty.
C17_Witness ==
    /\ Len(extracted) = 2
    /\ extracted[2].project_fundamentals.name # <<>>
    /\ \A i \in DOMAIN extract_input : extract_input[i] # GH
    /\ extracted[2].technical_infrastructure.github = <<>>

\* What the context shows for an outcome of the repository adapter.
GithubRendering(outcome) ==
    CASE outcome = "stats" -> "GitHub Repository Analysis"
      [] outcome = "error" -> "Repository analysis failed"
      [] OTHER -> "Unable to analyze repository activity"

\* What the context shows for an outcome of the market adapter.
MarketRendering(outcome) ==
    CASE outcome = "results" -> "Market Research Analysis: results"
      [] outcome = "error" -> "Market Research Analysis: failure marker"
      [] OTHER -> "Unable to retrieve market insights"

\* C21: every enrichment adapter the flow started has settled before the
\* context is composed and the reviewer is invoked; the context shows the
\* outcome of each adapter that ran; and when the application names a
\* repository and a problem, a failure of the repository adapter does not keep
\* the market adapter from running or its outcome from the context.
C21_ContextJoinsBothAdapters ==
    /\ \A i \in EventIndices("github") \cup EventIndices("market") :
          /\ context.kind = "new_application"
          /\ \A r \in EventIndices("reviewer") : i < r
    /\ \A i \in EventIndices("github") : context.github_analysis = GithubRendering(trace[i].arg)
    /\ \A j \in EventIndices("market") : context.market_analysis = MarketRendering(trace[j].arg)
    /\ (/\ \E i \in EventIndices("github") : trace[i].arg \in {"error", "raise"}
        /\ _extract_application_sections(msg.content).market_innovation.problem_solution # <<>>)
          => \E j \in EventIndices("market") : context.market_analysis = MarketRendering(trace[j].arg)

\* The repository adapter raised, the market adapter returned its results
\* afterwards, both are in the context, and the reviewer ran on it.
C21_Witness ==
    /\ \E i \in EventIndices("github"), j \in EventIndices("market"), r \in EventIndices("reviewer") :
          /\ trace[i].arg = "raise"
          /\ trace[j].arg = "results"
          /\ i < j /\ j < r
    /\ context.github_analysis = "Unable to analyze repository activity"
    /\ context.market_analysis = "Market Research Analysis: results"

\* C22: when a ledger operation (add_review, get_reviews, get_latest_review)
\* has ended, by returning or by raising, the connection it opened is no
\* longer held.
C22_ConnectionReleased ==
    last.op \in {"add_review", "get_reviews", "get_latest_review"} => last.conn # "open"

\* C25: the row a successful add_review has written carries the call's
\* user_id and the review_type 'grant_review', and its application_id and
\* application_date are those of an application handed to add_review: the
\* application's id when it has one and null otherwise, the application's
\* created_at when it has one and null otherwise.
C25_MetadataOfWrittenRecord ==
    (last.op = "add_review" /\ last.status = "ok") =>
        \E r \in table :
            /\ r.id = last.hash
            /\ r.user_id = last.user_id
            /\ r.review_type = "grant_review"
            /\ \E app \in AppDicts :
                  /\ r.application_id = IF app.hasId THEN app.id ELSE None
                  /\ r.application_date = IF app.hasCreated THEN app.created_at ELSE None

\* The text that follows the first occurrence of label in s.
AfterFirst(s, label) == SubSeq(s, IndexOf(s, <<label>>) + 1, Len(s))

\* C23: for a text content, the value extracted for a label is the text that
\* follows the first occurrence of the label, up to the next line break
\* (single-line fields: name, github) or the next blank line (multi-line
\* fields: problem_solution), trimmed; a later occurrence of the label does
\* not change it.
C23_ValueFollowsFirstOccurrence ==
    \A k \in DOMAIN extracted :
        IsStr(extract_input) =>
            /\ LabelIn(extract_input, NameLabel) =>
                  extracted[k].project_fundamentals.name
                    = strip(SplitHead(AfterFirst(extract_input, NameLabel), <<NL>>))
            /\ LabelIn(extract_input, GH) =>
                  extracted[k].technical_infrastructure.github
                    = strip(SplitHead(AfterFirst(extract_input, GH), <<NL>>))
            /\ LabelIn(extract_input, PS) =>
                  extracted[k].market_innovation.problem_solution
                    = strip(SplitHead(AfterFirst(extract_input, PS), <<NL, NL>>))

\* The labels that are present in the extractor's input and whose field is
\* at its empty default in the result r.
PresentButDefault(r) ==
    { f \in {x \in FieldLabels : x[2] \notin {"track_record", "completeness"}} :
        LabelIn(extract_input, f[3]) /\ r[f[1]][f[2]] = <<>> }

\* C24: when the content is not text, so that extracting a field hits an
\* internal error, only that one field stays at its empty default: of the
\* fields whose label is present, at most one is empty in the result.
C24_FailureIsolatedPerField ==
    \A k \in DOMAIN extracted :
        ~IsStr(extract_input) => Cardinality(PresentButDefault(extracted[k])) <= 1

\* C26: two flows get the same reviewer session_id only if they have the same
\* user_id and the same chat_id.
C26_SessionKeyPartitionsFlows ==
    \A i, j \in DOMAIN agents :
        agents[i].session_id = agents[j].session_id
            => agents[i].user_id = agents[j].user_id /\ agents[i].chat_id = agents[j].chat_id

\* C27: after add_review was called for a text that another user had already
\* stored, the ledger holds a single row for the text, attributed to the user
\* who stored it first: that user's get_reviews contains it and the caller's
\* does not.
C27_IdenticalTextCollapsesToFirstUser ==
    (/\ last.op = "add_review"
     /\ last.error \notin {"EmbedderError", "AttributeError", "OperationalError"}
     /\ last.owner \notin {None, last.user_id}) =>
        /\ Cardinality({ x \in table : x.content = last.text }) = 1
        /\ \A x \in table : x.content = last.text => x.user_id = last.owner
        /\ \A rows \in get_reviews(table, last.owner) :
              \E i \in DOMAIN rows : rows[i].content = last.text
        /\ \A rows \in get_reviews(table, last.user_id) :
              \A i \in DOMAIN rows : rows[i].content # last.text

\* u1 stored the text; u2's add_review of the same text has ended.
C27_Witness ==
    /\ last.op = "add_review"
    /\ last.user_id = "u2"
    /\ last.owner = "u1"
    /\ last.error \notin {"EmbedderError", "AttributeError", "OperationalError"}
    /\ \E r \in table : r.content = last.text /\ r.user_id = "u1"

\* C28: for one POST request the funder's chat receives at most one outcome
\* message: the review text or one error notification, never both and never
\* two error messages.
C28_AtMostOneFunderMessage ==
    request.method = "POST" => Len(funder_chat) <= 1

====
